---------------------------- MODULE Spec2Model ----------------------------
(***************************************************************************)
(* Model of bioviz/biorbd_vtk.py: the VtkModel actor-set synchronisation   *)
(* protocol.  For every visual category (markers, contacts, global and     *)
(* segments centre of mass, meshes, muscles, wrappings, rt frames, global  *)
(* reference frame) the model keeps the cached frame data, the style       *)
(* fields, the list of vtk actors and the renderer's actor collection.     *)
(*                                                                         *)
(* Every public method is one atomic action (the program is single         *)
(* threaded and every call runs to completion or raises).  A call is       *)
(* evaluated by operators over a machine record m:                         *)
(*   m.self    the fields of the VtkModel object                           *)
(*   m.ren     the actors registered in parent_window.ren                  *)
(*   m.vtk     the vtk objects alive: actor id -> mapper input, property   *)
(*   m.exc     "none", or the exception that is propagating                *)
(*   m.resets  number of ren.ResetCamera() calls made by this call         *)
(*   m.rebuilds, m.passes  number of new_*_set bodies / geometry passes    *)
(*                         run by this call                                *)
(*                                                                         *)
(* window holds the fields of the parent VtkWindow, buttons the enabled     *)
(* state of the application's buttons that record() may block.             *)
(*                                                                         *)
(* Abstractions: a 3D point is one value of Coords; a color triple and an  *)
(* opacity are kept in thousandths (1.0 = 1000); a size in 1e-4 units.     *)
(***************************************************************************)
EXTENDS Integers, Sequences, FiniteSets, TLC

VARIABLES self, ren, vtk, last, calls, window, buttons

vars == <<self, ren, vtk, last, calls, window, buttons>>

---------------------------------------------------------------------------
(* Bounds of the model *)

\* largest number of channels (points) in a pushed frame
MaxChan == 2
\* coordinates of a point are drawn from 0..MaxCoord
MaxCoord == 1
\* largest time.size of a pushed payload (1 is the only valid one)
MaxTime == 2
\* number of API calls explored by the whole-model specification Spec
MaxCalls == 3

Coords == 0..MaxCoord

RECURSIVE SeqsUpTo(_, _)
SeqsUpTo(S, n) ==
    IF n = 0 THEN {<<>>}
    ELSE LET shorter == SeqsUpTo(S, n - 1)
         IN  shorter \cup {Append(s, x) : s \in {t \in shorter : Len(t) = n - 1}, x \in S}

Range(s) == {s[i] : i \in 1..Len(s)}

\* One pyomeca Markers payload: nt = time.size, pts = the points of the
\* first time sample, one per channel (channel.size = Len(pts)).
Frames == [nt : 0..MaxTime, pts : SeqsUpTo(Coords, MaxChan)]

\* Values the style setters are called with
SizeInputs == {50, 200}
ColorInputs == {<<0, 0, 0>>, <<1000, 0, 0>>}
OpacityInputs == {500, 1000}

---------------------------------------------------------------------------
(* The point categories: markers, contacts, global / segments centre of mass *)

PointCats == {"markers", "contacts", "global_center_of_mass", "segments_center_of_mass"}

\* Markers(): an empty array, time.size = 0 and channel.size = 0
EmptyMarkers == [nt |-> 0, pts |-> <<>>]

Raise(m, e) == [m EXCEPT !.exc = e]

\* the IndexError the interpreter raises for an index out of range, as opposed
\* to "IndexError", the one the code raises for a payload of several frames
OutOfRange == "IndexError: index out of range"

\* vtkActor(): a new object, distinct from every object alive now or at call entry
NewActorId(m) ==
    LET used == (DOMAIN m.vtk) \cup m.entry
    IN  CHOOSE a \in 1..(Cardinality(used) + 1) :
            a \notin used /\ \A b \in 1..(a - 1) : b \in used

\* a fresh actor: default vtkProperty (white, opaque, line width 1), a mapper without input
BlankActor == [input |-> [kind |-> "none"], color |-> <<1000, 1000, 1000>>, opacity |-> 1000, width |-> 1]

\* the single-frame test of update_*: time.size != 1
NotOneFrame(markers) == markers.nt # 1

\* the test at the head of new_*_set; the global centre of mass variant
\* tests channel.size instead of time.size
NewSetRejects(c, markers) ==
    IF c = "global_center_of_mass" THEN Len(markers.pts) # 1 ELSE markers.nt # 1

\* mutant: a rebuild only when the channel count shrinks
ArityShrinks(markers, cached) == Len(markers.pts) < Len(cached.pts)

\* mutant: a rebuild whenever the coordinates differ
DataDiffers(markers, cached) == markers.pts # cached.pts

\* the rebuild-or-fast-path decision of update_*
ArityDiffers(markers, cached) == Len(markers.pts) # Len(cached.pts)

\* for i in range(channel.size): append a vtkActor, AddActor, ResetCamera
RECURSIVE new_point_actors(_, _, _, _)
new_point_actors(m, c, i, n) ==
    IF i >= n THEN m
    ELSE LET a == NewActorId(m)
             m1 == [m EXCEPT !.self[c \o "_actors"] = Append(@, a),
                             !.vtk = a :> BlankActor @@ @,
                             !.ren = @ \cup {a},
                             !.resets = @ + 1]
         IN  new_point_actors(m1, c, i + 1, n)

\* for i, actor in enumerate(actors): SetColor, SetOpacity, sphere source of center markers[0:3, i]
RECURSIVE point_pass(_, _, _, _)
point_pass(m, c, markers, i) ==
    LET actors == m.self[c \o "_actors"]
    IN  IF i > Len(actors) THEN m
        ELSE LET styled == [m EXCEPT !.vtk[actors[i]].color = m.self[c \o "_color"],
                                     !.vtk[actors[i]].opacity = m.self[c \o "_opacity"]]
             IN  IF i > Len(markers.pts) THEN Raise(styled, OutOfRange)
                 ELSE point_pass([styled EXCEPT !.vtk[actors[i]].input =
                                      [kind |-> "sphere", center |-> markers.pts[i],
                                       radius |-> m.self[c \o "_size"]]],
                                 c, markers, i + 1)

RECURSIVE update_point(_, _, _)

\* mutant: the previous actors are dropped from the list but stay in the scene
new_point_set_keeping_scene(m, c, markers) ==
    IF NewSetRejects(c, markers) THEN Raise(m, "IndexError")
    ELSE LET m1 == [m EXCEPT !.self[c] = markers, !.rebuilds = @ + 1,
                             !.self[c \o "_actors"] = <<>>]
             m2 == new_point_actors(m1, c, 0, Len(markers.pts))
         IN  update_point(m2, c, m2.self[c])

new_point_set(m, c, markers) ==
    IF NewSetRejects(c, markers) THEN Raise(m, "IndexError")
    ELSE LET m1 == [m EXCEPT !.self[c] = markers, !.rebuilds = @ + 1]
             m2 == [m1 EXCEPT !.ren = @ \ Range(m1.self[c \o "_actors"]),
                              !.self[c \o "_actors"] = <<>>]
             m3 == new_point_actors(m2, c, 0, Len(markers.pts))
         IN  update_point(m3, c, m3.self[c])

update_point(m, c, markers) ==
    IF NotOneFrame(markers) THEN Raise(m, "IndexError")
    ELSE IF ArityDiffers(markers, m.self[c]) THEN new_point_set(m, c, markers)
    ELSE point_pass([m EXCEPT !.self[c] = markers, !.passes = @ + 1], c, markers, 1)

set_point_color(m, c, v) ==
    LET m1 == [m EXCEPT !.self[c \o "_color"] = v] IN update_point(m1, c, m1.self[c])

\* mutant: the size setter rebuilds the set
set_point_size_rebuilding(m, c, v) ==
    LET m1 == [m EXCEPT !.self[c \o "_size"] = v] IN new_point_set(m1, c, m1.self[c])

set_point_size(m, c, v) ==
    LET m1 == [m EXCEPT !.self[c \o "_size"] = v] IN update_point(m1, c, m1.self[c])

set_point_opacity(m, c, v) ==
    LET m1 == [m EXCEPT !.self[c \o "_opacity"] = v] IN update_point(m1, c, m1.self[c])

---------------------------------------------------------------------------
(* The line / surface categories: meshes and muscles *)

\* a payload of update_mesh / update_muscle / update_rt: one sub-entity
\* ("single"), a list of them, or another iterable of them (a tuple)
Wrap(p) == IF p.kind = "single" THEN [kind |-> "list", items |-> p.items] ELSE p

IsList(p) == p.kind = "list"

AllField(cat) == IF cat = "mesh" THEN "all_meshes" ELSE "all_muscles"

\* the closing polyline of one triangle column: ids 0..2, then the first again
ClosedLine(t) == <<t[1], t[2], t[3], t[1]>>

\* mesh.triangles.shape[1]==0 or len(np.unique(mesh.triangles[:,0])):
\* triangles[:,0] is the first column, so the count is at least 1
OutlineTopology(mesh) ==
    Len(mesh.tri) = 0 \/ Cardinality(Range(mesh.tri[1])) # 0

\* mutant: the outline branch leaves the stored mesh color alone
build_mesh_actor_keeping_color(m, mesh) ==
    LET a == NewActorId(m)
        input == IF OutlineTopology(mesh)
                 THEN [kind |-> "lines", pts |-> mesh.pts,
                       cells |-> [j \in 1..Len(mesh.tri) |-> ClosedLine(mesh.tri[j])]]
                 ELSE [kind |-> "polys", pts |-> mesh.pts, cells |-> mesh.tri]
    IN  [m EXCEPT !.self.mesh_actors = Append(@, a),
                  !.vtk = a :> [input |-> input, color |-> m.self.mesh_color,
                                opacity |-> m.self.mesh_opacity, width |-> 1] @@ @,
                  !.ren = @ \cup {a},
                  !.resets = @ + 1]

\* the body of the loop of new_mesh_set for one mesh (time.size already tested)
build_mesh_actor(m, mesh) ==
    LET a == NewActorId(m)
        outline == OutlineTopology(mesh)
        input == IF outline
                 THEN [kind |-> "lines", pts |-> mesh.pts,
                       cells |-> [j \in 1..Len(mesh.tri) |-> ClosedLine(mesh.tri[j])]]
                 ELSE [kind |-> "polys", pts |-> mesh.pts, cells |-> mesh.tri]
        m1 == IF outline THEN [m EXCEPT !.self.mesh_color = <<0, 0, 0>>] ELSE m
    IN  [m1 EXCEPT !.self.mesh_actors = Append(@, a),
                   !.vtk = a :> [input |-> input, color |-> m1.self.mesh_color,
                                 opacity |-> m1.self.mesh_opacity, width |-> 1] @@ @,
                   !.ren = @ \cup {a},
                   !.resets = @ + 1]

\* the body of the loop of new_muscle_set for one muscle: points at the origin
build_muscle_actor(m, mesh) ==
    LET a == NewActorId(m)
        input == [kind |-> "lines", pts |-> [j \in 1..Len(mesh.pts) |-> 0],
                  cells |-> [j \in 1..Len(mesh.tri) |-> ClosedLine(mesh.tri[j])]]
    IN  [m EXCEPT !.self.muscle_actors = Append(@, a),
                  !.vtk = a :> [input |-> input, color |-> m.self.muscle_color,
                                opacity |-> m.self.muscle_opacity, width |-> 5] @@ @,
                  !.ren = @ \cup {a},
                  !.resets = @ + 1]

\* for (i, mesh) in enumerate(self.all_meshes): raise on time.size != 1, else build
RECURSIVE new_meshes_loop(_, _, _)
new_meshes_loop(m, cat, i) ==
    LET all == m.self[AllField(cat)]
    IN  IF i > Len(all) THEN m
        ELSE IF all[i].nt # 1 THEN Raise(m, "IndexError")
        ELSE new_meshes_loop(IF cat = "mesh" THEN build_mesh_actor(m, all[i])
                             ELSE build_muscle_actor(m, all[i]),
                             cat, i + 1)

\* the first loop of update_mesh: "IndexError", "rebuild", or "same"
RECURSIVE meshes_scan(_, _, _)
meshes_scan(cached, items, i) ==
    IF i > Len(items) THEN "same"
    ELSE IF items[i].nt # 1 THEN "IndexError"
    ELSE IF Len(cached) < i \/ Len(items[i].pts) # Len(cached[i].pts) THEN "rebuild"
    ELSE meshes_scan(cached, items, i + 1)

\* mutant: the update pass inserts the cells of the pushed table once more
RECURSIVE meshes_pass_adding_cells(_, _, _)
meshes_pass_adding_cells(m, cat, i) ==
    LET all == m.self[AllField(cat)]
        actors == m.self[cat \o "_actors"]
    IN  IF i > Len(all) THEN m
        ELSE IF i > Len(actors) THEN Raise(m, OutOfRange)
        ELSE meshes_pass_adding_cells(
                 [m EXCEPT !.vtk[actors[i]].input.pts = all[i].pts,
                           !.vtk[actors[i]].input.cells =
                               @ \o [j \in 1..Len(all[i].tri) |-> ClosedLine(all[i].tri[j])]],
                 cat, i + 1)

\* the second loop of update_mesh: new points for the input of actor i
RECURSIVE meshes_pass(_, _, _)
meshes_pass(m, cat, i) ==
    LET all == m.self[AllField(cat)]
        actors == m.self[cat \o "_actors"]
    IN  IF i > Len(all) THEN m
        ELSE IF i > Len(actors) THEN Raise(m, OutOfRange)
        ELSE meshes_pass([m EXCEPT !.vtk[actors[i]].input.pts = all[i].pts], cat, i + 1)

RECURSIVE update_meshes(_, _, _)

\* mutant: a rebuild that ends without the update pass
new_meshes_set_without_update(m, cat, all_meshes) ==
    LET p == Wrap(all_meshes)
    IN  IF ~IsList(p) THEN Raise(m, "TypeError")
        ELSE LET m1 == [m EXCEPT !.self[AllField(cat)] = p.items, !.rebuilds = @ + 1]
                 m2 == [m1 EXCEPT !.ren = @ \ Range(m1.self[cat \o "_actors"]),
                                  !.self[cat \o "_actors"] = <<>>]
             IN  new_meshes_loop(m2, cat, 1)

new_meshes_set(m, cat, all_meshes) ==
    LET p == Wrap(all_meshes)
    IN  IF ~IsList(p) THEN Raise(m, "TypeError")
        ELSE LET m1 == [m EXCEPT !.self[AllField(cat)] = p.items, !.rebuilds = @ + 1]
                 m2 == [m1 EXCEPT !.ren = @ \ Range(m1.self[cat \o "_actors"]),
                                  !.self[cat \o "_actors"] = <<>>]
                 m3 == new_meshes_loop(m2, cat, 1)
             IN  IF m3.exc # "none" THEN m3
                 ELSE update_meshes(m3, cat, [kind |-> "list", items |-> m3.self[AllField(cat)]])

\* mutant: no return after the rebuild, the outer update goes on to its own pass
update_meshes_without_return(m, cat, all_meshes) ==
    LET p == Wrap(all_meshes)
        scan == meshes_scan(m.self[AllField(cat)], p.items, 1)
        m1 == IF scan = "rebuild" THEN new_meshes_set(m, cat, p) ELSE m
    IN  IF scan = "IndexError" THEN Raise(m, "IndexError")
        ELSE IF m1.exc # "none" THEN m1
        ELSE IF ~IsList(p) THEN Raise(m1, "TypeError")
        ELSE meshes_pass([m1 EXCEPT !.self[AllField(cat)] = p.items, !.passes = @ + 1], cat, 1)

update_meshes(m, cat, all_meshes) ==
    LET p == Wrap(all_meshes)
        scan == meshes_scan(m.self[AllField(cat)], p.items, 1)
    IN  IF scan = "IndexError" THEN Raise(m, "IndexError")
        ELSE IF scan = "rebuild" THEN new_meshes_set(m, cat, p)
        ELSE IF ~IsList(p) THEN Raise(m, "TypeError")
        ELSE meshes_pass([m EXCEPT !.self[AllField(cat)] = p.items, !.passes = @ + 1], cat, 1)

set_mesh_color(m, v) ==
    LET m1 == [m EXCEPT !.self.mesh_color = v]
    IN  update_meshes(m1, "mesh", [kind |-> "list", items |-> m1.self.all_meshes])

set_mesh_opacity(m, v) ==
    LET m1 == [m EXCEPT !.self.mesh_opacity = v]
    IN  update_meshes(m1, "mesh", [kind |-> "list", items |-> m1.self.all_meshes])

\* set_muscle_color calls self.update_muscles, which VtkModel does not define
set_muscle_color(m, v) ==
    Raise([m EXCEPT !.self.muscle_color = v], "AttributeError")

set_muscle_opacity(m, v) ==
    LET m1 == [m EXCEPT !.self.muscle_opacity = v]
    IN  update_meshes(m1, "muscle", [kind |-> "list", items |-> m1.self.all_muscles])

---------------------------------------------------------------------------
(* The wrapping category: one list of sub-entities per segment *)

\* the body of the loop of new_wrapping_set for one wrapping: points at the
\* origin; self.wrapping_actors[seg].append adds the actor to the list object
\* of slot seg, hence to every slot that refers to the same object
build_wrapping_actor(m, seg, wrapping) ==
    LET a == NewActorId(m)
        input == [kind |-> "lines", pts |-> [j \in 1..Len(wrapping.pts) |-> 0],
                  cells |-> [j \in 1..Len(wrapping.tri) |-> ClosedLine(wrapping.tri[j])]]
        ref == m.self.wrapping_actors_ref
    IN  [m EXCEPT !.self.wrapping_actors =
                      [t \in 1..Len(@) |-> IF ref[t] = ref[seg] THEN Append(@[t], a) ELSE @[t]],
                  !.vtk = a :> [input |-> input, color |-> m.self.wrapping_color,
                                opacity |-> m.self.wrapping_opacity, width |-> 1] @@ @,
                  !.ren = @ \cup {a},
                  !.resets = @ + 1]

RECURSIVE new_wrapping_loop(_, _, _)
new_wrapping_loop(m, seg, i) ==
    LET all == m.self.all_wrappings[seg]
    IN  IF i > Len(all) THEN m
        ELSE IF all[i].nt # 1 THEN Raise(m, "IndexError")
        ELSE new_wrapping_loop(build_wrapping_actor(m, seg, all[i]), seg, i + 1)

\* mutant: the rebuild does not cache the pushed sub-list
new_wrapping_set_without_cache(m, all_wrappings, seg) ==
    LET p == Wrap(all_wrappings)
    IN  IF ~IsList(p) THEN Raise(m, "TypeError")
        ELSE IF seg > Len(m.self.all_wrappings) THEN Raise(m, OutOfRange)
        ELSE LET m1 == [m EXCEPT !.rebuilds = @ + 1]
                 m2 == [m1 EXCEPT !.ren = @ \ Range(m1.self.wrapping_actors[seg]),
                                  !.self.wrapping_actors[seg] = <<>>,
                                  !.self.wrapping_actors_ref[seg] = seg]
                 RECURSIVE loop(_, _)
                 loop(mm, i) ==
                     IF i > Len(p.items) THEN mm
                     ELSE IF p.items[i].nt # 1 THEN Raise(mm, "IndexError")
                     ELSE loop(build_wrapping_actor(mm, seg, p.items[i]), i + 1)
             IN  loop(m2, 1)

\* mutant: the rebuild empties the list object of slot seg in place instead
\* of giving the slot a new list
new_wrapping_set_sharing_lists(m, all_wrappings, seg) ==
    LET p == Wrap(all_wrappings)
    IN  IF ~IsList(p) THEN Raise(m, "TypeError")
        ELSE IF seg > Len(m.self.all_wrappings) THEN Raise(m, OutOfRange)
        ELSE LET m1 == [m EXCEPT !.self.all_wrappings[seg] = p.items, !.rebuilds = @ + 1]
                 ref == m1.self.wrapping_actors_ref
                 m2 == [m1 EXCEPT !.ren = @ \ Range(m1.self.wrapping_actors[seg]),
                                  !.self.wrapping_actors =
                                      [t \in 1..Len(@) |->
                                          IF ref[t] = ref[seg] THEN <<>> ELSE @[t]]]
             IN  new_wrapping_loop(m2, seg, 1)

\* self.all_wrappings[seg] = ... raises IndexError when the outer list has no slot seg;
\* self.wrapping_actors[seg] = list() makes slot seg refer to a new list object
new_wrapping_set(m, all_wrappings, seg) ==
    LET p == Wrap(all_wrappings)
    IN  IF ~IsList(p) THEN Raise(m, "TypeError")
        ELSE IF seg > Len(m.self.all_wrappings) THEN Raise(m, OutOfRange)
        ELSE LET m1 == [m EXCEPT !.self.all_wrappings[seg] = p.items, !.rebuilds = @ + 1]
                 m2 == [m1 EXCEPT !.ren = @ \ Range(m1.self.wrapping_actors[seg]),
                                  !.self.wrapping_actors[seg] = <<>>,
                                  !.self.wrapping_actors_ref[seg] = seg]
             IN  new_wrapping_loop(m2, seg, 1)

\* the loop over the sub-entities of one segment: it goes on after a rebuild
RECURSIVE wrapping_scan(_, _, _, _)
wrapping_scan(m, wrappings, seg, i) ==
    IF i > Len(wrappings.items) THEN m
    ELSE IF wrappings.items[i].nt # 1 THEN Raise(m, "IndexError")
    ELSE IF seg > Len(m.self.all_wrappings) THEN Raise(m, OutOfRange)
    ELSE LET cached == m.self.all_wrappings[seg]
         IN  IF Len(cached) < i \/ Len(wrappings.items[i].pts) # Len(cached[i].pts)
             THEN LET m1 == new_wrapping_set(m, wrappings, seg)
                  IN  IF m1.exc # "none" THEN m1
                      ELSE wrapping_scan(m1, wrappings, seg, i + 1)
             ELSE wrapping_scan(m, wrappings, seg, i + 1)

RECURSIVE wrapping_pass(_, _, _)
wrapping_pass(m, seg, i) ==
    LET all == m.self.all_wrappings[seg]
        actors == m.self.wrapping_actors[seg]
    IN  IF i > Len(all) THEN m
        ELSE IF i > Len(actors) THEN Raise(m, OutOfRange)
        ELSE wrapping_pass([m EXCEPT !.vtk[actors[i]].input.pts = all[i].pts], seg, i + 1)

\* the body of "for seg, wrappings in enumerate(all_wrappings)"
RECURSIVE wrapping_segments(_, _, _)
wrapping_segments(m, all_wrappings, seg) ==
    IF seg > Len(all_wrappings) THEN m
    ELSE LET wrappings == all_wrappings[seg]
             m1 == wrapping_scan(m, wrappings, seg, 1)
         IN  IF m1.exc # "none" THEN m1
             ELSE IF ~IsList(wrappings) THEN Raise(m1, "TypeError")
             ELSE IF seg > Len(m1.self.all_wrappings) THEN Raise(m1, OutOfRange)
             ELSE LET m2 == wrapping_pass([m1 EXCEPT !.self.all_wrappings[seg] = wrappings.items,
                                                     !.passes = @ + 1], seg, 1)
                  IN  IF m2.exc # "none" THEN m2
                      ELSE wrapping_segments(m2, all_wrappings, seg + 1)

\* [[]] * len(all_wrappings): every slot refers to one and the same empty list
\* (object 0 of wrapping_actors_ref); the lists of all_wrappings are never
\* changed in place, so their sharing needs no record
update_wrapping(m, all_wrappings) ==
    LET empty == [seg \in 1..Len(all_wrappings) |-> <<>>]
        m1 == IF m.self.all_wrappings = <<>>
              THEN [m EXCEPT !.self.all_wrappings = empty, !.self.wrapping_actors = empty,
                             !.self.wrapping_actors_ref = [seg \in 1..Len(all_wrappings) |-> 0]]
              ELSE m
    IN  wrapping_segments(m1, all_wrappings, 1)

\* the cached per-segment lists, as the payload the setters pass to update_wrapping
CachedWrappings(m) ==
    [seg \in 1..Len(m.self.all_wrappings) |->
        [kind |-> "list", items |-> m.self.all_wrappings[seg]]]

set_wrapping_color(m, v) ==
    LET m1 == [m EXCEPT !.self.wrapping_color = v] IN update_wrapping(m1, CachedWrappings(m1))

set_wrapping_opacity(m, v) ==
    LET m1 == [m EXCEPT !.self.wrapping_opacity = v] IN update_wrapping(m1, CachedWrappings(m1))

---------------------------------------------------------------------------
(* Rigid frames: the rt collection and the global reference frame *)

\* origin -> X, Y, Z
AxesCells == <<<<0, 1>>, <<0, 2>>, <<0, 3>>>>

AxesColors == <<<<255, 0, 0>>, <<0, 255, 0>>, <<0, 0, 255>>>>

\* four points: an origin and three axis tips at distance length (1e-4 units)
AxesInput(origin, length) ==
    [kind |-> "axes", origin |-> origin, length |-> length,
     cells |-> AxesCells, colors |-> AxesColors]

\* mutant: the new actor is appended to the list but not added to the scene
build_rt_actor_unregistered(m) ==
    LET a == NewActorId(m)
    IN  [m EXCEPT !.self.rt_actors = Append(@, a),
                  !.vtk = a :> [BlankActor EXCEPT !.input = AxesInput(0, 10000),
                                                  !.width = m.self.rt_width] @@ @]

build_rt_actor(m) ==
    LET a == NewActorId(m)
    IN  [m EXCEPT !.self.rt_actors = Append(@, a),
                  !.vtk = a :> [BlankActor EXCEPT !.input = AxesInput(0, 10000),
                                                  !.width = m.self.rt_width] @@ @,
                  !.ren = @ \cup {a},
                  !.resets = @ + 1]

RECURSIVE new_rt_loop(_, _, _)
new_rt_loop(m, all_rt, i) ==
    IF i > Len(all_rt) THEN m
    ELSE IF all_rt[i].nt # 1 THEN Raise(m, "IndexError")
    ELSE new_rt_loop(build_rt_actor(m), all_rt, i + 1)

\* mutant: the pass gives the actor a new poly data without the cell colors
RECURSIVE rt_pass_dropping_colors(_, _)
rt_pass_dropping_colors(m, i) ==
    LET all == m.self.all_rt
        actors == m.self.rt_actors
    IN  IF i > Len(all) THEN m
        ELSE IF all[i].nt # 1 THEN Raise(m, "IndexError")
        ELSE IF i > Len(actors) THEN Raise(m, OutOfRange)
        ELSE rt_pass_dropping_colors(
                 [m EXCEPT !.vtk[actors[i]].input =
                      [kind |-> "axes", origin |-> all[i].pos, length |-> m.self.rt_length,
                       cells |-> AxesCells, colors |-> <<>>]], i + 1)

RECURSIVE rt_pass(_, _)
rt_pass(m, i) ==
    LET all == m.self.all_rt
        actors == m.self.rt_actors
    IN  IF i > Len(all) THEN m
        ELSE IF all[i].nt # 1 THEN Raise(m, "IndexError")
        ELSE IF i > Len(actors) THEN Raise(m, OutOfRange)
        ELSE rt_pass([m EXCEPT !.vtk[actors[i]].input.origin = all[i].pos,
                               !.vtk[actors[i]].input.length = m.self.rt_length], i + 1)

RECURSIVE update_rt(_, _)

\* mutant: the rebuild empties the whole scene instead of removing its own actors
new_rt_set_clearing_scene(m, all_rt) ==
    LET p == Wrap(all_rt)
    IN  IF ~IsList(p) THEN Raise(m, "TypeError")
        ELSE LET m1 == [m EXCEPT !.ren = {}, !.self.rt_actors = <<>>, !.rebuilds = @ + 1]
                 m2 == new_rt_loop(m1, p.items, 1)
             IN  IF m2.exc # "none" THEN m2
                 ELSE update_rt([m2 EXCEPT !.self.n_rt = Len(p.items)], p)

new_rt_set(m, all_rt) ==
    LET p == Wrap(all_rt)
    IN  IF ~IsList(p) THEN Raise(m, "TypeError")
        ELSE LET m1 == [m EXCEPT !.ren = @ \ Range(m.self.rt_actors),
                                 !.self.rt_actors = <<>>, !.rebuilds = @ + 1]
                 m2 == new_rt_loop(m1, p.items, 1)
             IN  IF m2.exc # "none" THEN m2
                 ELSE update_rt([m2 EXCEPT !.self.n_rt = Len(p.items)], p)

update_rt(m, all_rt) ==
    LET p == Wrap(all_rt)
    IN  IF Len(p.items) # m.self.n_rt THEN new_rt_set(m, p)
        ELSE IF ~IsList(p) THEN Raise(m, "TypeError")
        ELSE rt_pass([m EXCEPT !.self.all_rt = p.items, !.passes = @ + 1], 1)

\* mutant: no test of has_global_ref_frame
create_global_ref_frame_again(m) ==
    LET a == NewActorId(m)
    IN  [m EXCEPT !.self.has_global_ref_frame = TRUE,
                  !.vtk = a :> [BlankActor EXCEPT
                                  !.input = AxesInput(0, m.self.global_ref_frame_length),
                                  !.width = m.self.global_ref_frame_width] @@ @,
                  !.ren = @ \cup {a},
                  !.resets = @ + 1]

create_global_ref_frame(m) ==
    IF m.self.has_global_ref_frame THEN Raise(m, "RuntimeError")
    ELSE LET a == NewActorId(m)
         IN  [m EXCEPT !.self.has_global_ref_frame = TRUE,
                       !.vtk = a :> [BlankActor EXCEPT
                                       !.input = AxesInput(0, m.self.global_ref_frame_length),
                                       !.width = m.self.global_ref_frame_width] @@ @,
                       !.ren = @ \cup {a},
                       !.resets = @ + 1]

---------------------------------------------------------------------------
(* State after VtkModel.__init__ with the default arguments *)

InitSelf ==
    [markers |-> EmptyMarkers, markers_size |-> 100, markers_color |-> <<1000, 1000, 1000>>,
     markers_opacity |-> 1000, markers_actors |-> <<>>,
     contacts |-> EmptyMarkers, contacts_size |-> 100, contacts_color |-> <<0, 1000, 0>>,
     contacts_opacity |-> 1000, contacts_actors |-> <<>>,
     has_global_ref_frame |-> FALSE, global_ref_frame_length |-> 1500,
     global_ref_frame_width |-> 5,
     global_center_of_mass |-> EmptyMarkers, global_center_of_mass_size |-> 75,
     global_center_of_mass_color |-> <<0, 0, 0>>, global_center_of_mass_opacity |-> 1000,
     global_center_of_mass_actors |-> <<>>,
     segments_center_of_mass |-> EmptyMarkers, segments_center_of_mass_size |-> 50,
     segments_center_of_mass_color |-> <<0, 0, 0>>, segments_center_of_mass_opacity |-> 1000,
     segments_center_of_mass_actors |-> <<>>,
     all_rt |-> <<>>, n_rt |-> 0, rt_length |-> 1000, rt_width |-> 2, rt_actors |-> <<>>,
     all_meshes |-> <<>>, mesh_color |-> <<890, 855, 788>>, mesh_opacity |-> 800,
     mesh_actors |-> <<>>,
     all_muscles |-> <<>>, muscle_color |-> <<588, 59, 59>>, muscle_opacity |-> 1000,
     muscle_actors |-> <<>>,
     all_wrappings |-> <<>>, wrapping_color |-> <<0, 0, 1000>>, wrapping_opacity |-> 1000,
     wrapping_actors |-> <<>>, wrapping_actors_ref |-> <<>>]

\* number of buttons of the application
MaxButtons == 2

\* file_name=None (or any empty name) of record
NoFile == ""

\* VtkWindow.__init__, then VtkModel.__init__, which asks for a camera reset;
\* fixed_size tells whether setFixedSize is in force, recorder whether the
\* video writer is between Start() and End()
InitWindow ==
    [should_reset_camera |-> TRUE, is_fixed_sized |-> FALSE, fixed_size |-> FALSE,
     recorder |-> "idle", file_name |-> NoFile]

Init ==
    /\ self = InitSelf
    /\ ren = {}
    /\ vtk = <<>>
    /\ last = [op |-> "__init__", cat |-> "", arg |-> <<>>, exc |-> "none",
               resets |-> 0, rebuilds |-> 0, passes |-> 0]
    /\ calls = 0
    /\ window = InitWindow
    /\ buttons = [b \in 1..MaxButtons |-> TRUE]

\* the machine at the entry of a call
Enter == [self |-> self, ren |-> ren, vtk |-> vtk, entry |-> DOMAIN vtk, exc |-> "none",
          resets |-> 0, rebuilds |-> 0, passes |-> 0]

\* the actors some actor list of the model refers to
Listed(s) ==
    UNION ({Range(s[c \o "_actors"]) : c \in PointCats \cup {"mesh", "muscle", "rt"}}
           \cup {Range(s.wrapping_actors[seg]) : seg \in 1..Len(s.wrapping_actors)})

\* the call returns or raises: the variables take the machine's values; vtk
\* objects that nothing refers to any more are garbage
Return(op, c, arg, result) ==
    LET m == result IN
    /\ self' = m.self
    /\ ren' = m.ren
    /\ vtk' = [a \in (m.ren \cup Listed(m.self)) |-> m.vtk[a]]
    /\ last' = [op |-> op, cat |-> c, arg |-> arg, exc |-> m.exc,
                resets |-> m.resets, rebuilds |-> m.rebuilds, passes |-> m.passes]
    /\ UNCHANGED <<window, buttons>>

UpdatePoint(c, markers) == Return("update", c, markers, update_point(Enter, c, markers))

NewPointSet(c, markers) == Return("new_set", c, markers, new_point_set(Enter, c, markers))

SetPointColor(c, v) == Return("set_color", c, v, set_point_color(Enter, c, v))

SetPointSize(c, v) == Return("set_size", c, v, set_point_size(Enter, c, v))

SetPointOpacity(c, v) == Return("set_opacity", c, v, set_point_opacity(Enter, c, v))

UpdateMesh(p) == Return("update", "mesh", p, update_meshes(Enter, "mesh", p))

NewMeshSet(p) == Return("new_set", "mesh", p, new_meshes_set(Enter, "mesh", p))

SetMeshColor(v) == Return("set_color", "mesh", v, set_mesh_color(Enter, v))

SetMeshOpacity(v) == Return("set_opacity", "mesh", v, set_mesh_opacity(Enter, v))

UpdateMuscle(p) == Return("update", "muscle", p, update_meshes(Enter, "muscle", p))

NewMuscleSet(p) == Return("new_set", "muscle", p, new_meshes_set(Enter, "muscle", p))

SetMuscleColor(v) == Return("set_color", "muscle", v, set_muscle_color(Enter, v))

SetMuscleOpacity(v) == Return("set_opacity", "muscle", v, set_muscle_opacity(Enter, v))

UpdateWrapping(p) == Return("update", "wrapping", p, update_wrapping(Enter, p))

NewWrappingSet(p, seg) ==
    Return("new_set", "wrapping", [wrappings |-> p, seg |-> seg], new_wrapping_set(Enter, p, seg))

SetWrappingColor(v) == Return("set_color", "wrapping", v, set_wrapping_color(Enter, v))

SetWrappingOpacity(v) == Return("set_opacity", "wrapping", v, set_wrapping_opacity(Enter, v))

UpdateRt(p) == Return("update", "rt", p, update_rt(Enter, p))

NewRtSet(p) == Return("new_set", "rt", p, new_rt_set(Enter, p))

CreateGlobalRefFrame ==
    Return("create", "global_ref_frame", <<>>, create_global_ref_frame(Enter))

---------------------------------------------------------------------------
(* The parent window: repaint and video recording *)

\* mutant: the repaint resets the camera whatever the flag says
update_frame_always_resetting(w) ==
    [window |-> [w EXCEPT !.should_reset_camera = FALSE], resets |-> 1]

\* update_frame: ResetCamera() if should_reset_camera, which is then cleared
update_frame(w) ==
    IF w.should_reset_camera
    THEN [window |-> [w EXCEPT !.should_reset_camera = FALSE], resets |-> 1]
    ELSE [window |-> w, resets |-> 0]

\* for b in button_to_block: was_true.append(b.isEnabled()); b.setEnabled(False)
RECURSIVE block_buttons(_, _, _, _)
block_buttons(bs, button_to_block, was_true, i) ==
    IF i > Len(button_to_block) THEN [buttons |-> bs, was_true |-> was_true]
    ELSE block_buttons([bs EXCEPT ![button_to_block[i]] = FALSE], button_to_block,
                       Append(was_true, bs[button_to_block[i]]), i + 1)

\* mutant: every blocked button is enabled after the frame is written
RECURSIVE unblock_all_buttons(_, _, _, _)
unblock_all_buttons(bs, button_to_block, was_true, i) ==
    IF i > Len(button_to_block) THEN bs
    ELSE unblock_all_buttons([bs EXCEPT ![button_to_block[i]] = TRUE],
                             button_to_block, was_true, i + 1)

\* for i, b in enumerate(button_to_block): if was_true[i]: b.setEnabled(True)
RECURSIVE unblock_buttons(_, _, _, _)
unblock_buttons(bs, button_to_block, was_true, i) ==
    IF i > Len(button_to_block) THEN bs
    ELSE unblock_buttons(IF was_true[i] THEN [bs EXCEPT ![button_to_block[i]] = TRUE] ELSE bs,
                         button_to_block, was_true, i + 1)

\* record: optionally start the writer on file_name and fix the window size,
\* write one frame with the buttons blocked, optionally end the recording;
\* during is the enabled state of the buttons while the frame is written
record(w, bs, finish, button_to_block, file_name) ==
    LET w1 == IF file_name # NoFile
              THEN [w EXCEPT !.file_name = file_name, !.recorder = "started",
                             !.fixed_size = IF ~w.is_fixed_sized THEN TRUE ELSE @]
              ELSE w
        blocked == block_buttons(bs, button_to_block, <<>>, 1)
        after == unblock_buttons(blocked.buttons, button_to_block, blocked.was_true, 1)
        w2 == IF finish
              THEN [w1 EXCEPT !.recorder = "idle",
                              !.fixed_size = IF ~w1.is_fixed_sized THEN FALSE ELSE @]
              ELSE w1
    IN  [window |-> w2, buttons |-> after, during |-> blocked.buttons]

UpdateFrame ==
    LET r == update_frame(window) IN
    /\ window' = r.window
    /\ last' = [op |-> "update_frame", cat |-> "window", arg |-> <<>>, exc |-> "none",
                resets |-> r.resets, rebuilds |-> 0, passes |-> 0]
    /\ UNCHANGED <<self, ren, vtk, buttons>>

Record(finish, button_to_block, file_name) ==
    LET r == record(window, buttons, finish, button_to_block, file_name) IN
    /\ window' = r.window
    /\ buttons' = r.buttons
    /\ last' = [op |-> "record", cat |-> "window",
                arg |-> [finish |-> finish, button_to_block |-> button_to_block,
                         file_name |-> file_name],
                exc |-> "none", resets |-> 0, rebuilds |-> 0, passes |-> 0,
                during |-> r.during]
    /\ UNCHANGED <<self, ren, vtk>>

\* VtkModel(parent): a new model on the same window; the scene keeps the
\* actors of the model it replaces
ConstructModel ==
    /\ self' = InitSelf
    /\ window' = [window EXCEPT !.should_reset_camera = TRUE]
    /\ last' = [op |-> "__init__", cat |-> "", arg |-> <<>>, exc |-> "none",
                resets |-> 0, rebuilds |-> 0, passes |-> 0]
    /\ UNCHANGED <<ren, vtk, buttons>>

\* the application enables or disables one of its buttons
SetEnabled(b, v) ==
    /\ buttons' = [buttons EXCEPT ![b] = v]
    /\ last' = [op |-> "setEnabled", cat |-> "button", arg |-> <<b, v>>, exc |-> "none",
                resets |-> 0, rebuilds |-> 0, passes |-> 0]
    /\ UNCHANGED <<self, ren, vtk, window>>

---------------------------------------------------------------------------
(* Inputs *)

\* largest number of sub-entities in a pushed list
MaxSub == 2
\* largest number of segments in a pushed wrapping payload
MaxSeg == 2

\* n points, all at coordinate x
Flat(n, x) == [j \in 1..n |-> x]

\* triangle tables, as sequences of columns: no triangle; one triangle; two
\* triangles whose first row (0, 1) is not constant
Tris == {<<>>, <<<<0, 1, 1>>>>, <<<<0, 1, 1>>, <<1, 0, 0>>>>}

\* single-frame sub-entities: one point at any coordinate without triangles,
\* MaxChan points with each non-empty triangle table
OneFrameMeshes ==
    {[nt |-> 1, pts |-> Flat(1, x), tri |-> <<>>] : x \in Coords}
    \cup {[nt |-> 1, pts |-> Flat(MaxChan, 0), tri |-> t] : t \in Tris \ {<<>>}}

\* sub-entities spanning several time samples
MultiFrameMeshes == {[nt |-> k, pts |-> Flat(1, 0), tri |-> <<>>] : k \in 2..MaxTime}

\* a single sub-entity, lists of up to n sub-entities, and tuples (iterables
\* that are no list) of up to one single-frame sub-entity
Payloads(items, n) ==
    LET lists == SeqsUpTo(items, n)
    IN  {[kind |-> "list", items |-> l] : l \in lists}
        \cup {[kind |-> "tuple", items |-> l] :
                 l \in {t \in lists : Len(t) <= 1 /\ \A i \in 1..Len(t) : t[i].nt = 1}}
        \cup {[kind |-> "single", items |-> <<x>>] : x \in items}

MeshPayloads == Payloads(OneFrameMeshes \cup MultiFrameMeshes, MaxSub)

Rts == [nt : 1..MaxTime, pos : Coords]

RtPayloads == Payloads(Rts, MaxSub)

\* the smaller input sets of the whole-model specification
FewFrames == {[nt |-> k, pts |-> Flat(n, 0)] : k \in 1..MaxTime, n \in 1..MaxChan}

FewMeshes == {[nt |-> k, pts |-> Flat(1, 0), tri |-> <<>>] : k \in 1..MaxTime}

FewMeshPayloads == Payloads(FewMeshes, MaxSub)

FewSegments ==
    {[kind |-> "list", items |-> <<x>>] : x \in FewMeshes}
    \cup {[kind |-> "tuple", items |-> <<x>>] : x \in {y \in FewMeshes : y.nt = 1}}

FewWrappingPayloads == SeqsUpTo(FewSegments, MaxSeg)

FewRtPayloads == Payloads([nt : 1..MaxTime, pos : {0}], MaxSub)

FewSizes == {200}

FewColors == {<<1000, 0, 0>>}

FewOpacities == {500}

---------------------------------------------------------------------------
(* Specifications *)

\* a call of a specification that explores any number of calls
Free(A) == A /\ UNCHANGED calls

\* a call of a specification that explores MaxCalls calls
Counted(A) == calls < MaxCalls /\ calls' = calls + 1 /\ A

\* the marker category alone, any number of calls
NextMarkers ==
    \/ \E markers \in Frames : Free(UpdatePoint("markers", markers))
    \/ \E markers \in Frames : Free(NewPointSet("markers", markers))
    \/ \E v \in ColorInputs : Free(SetPointColor("markers", v))
    \/ \E v \in SizeInputs : Free(SetPointSize("markers", v))
    \/ \E v \in OpacityInputs : Free(SetPointOpacity("markers", v))

SpecMarkers == Init /\ [][NextMarkers]_vars

\* the four point categories, MaxCalls calls
NextPoints ==
    \/ \E c \in PointCats, markers \in Frames : Counted(UpdatePoint(c, markers))
    \/ \E c \in PointCats, markers \in Frames : Counted(NewPointSet(c, markers))
    \/ \E c \in PointCats, v \in ColorInputs : Counted(SetPointColor(c, v))
    \/ \E c \in PointCats, v \in SizeInputs : Counted(SetPointSize(c, v))
    \/ \E c \in PointCats, v \in OpacityInputs : Counted(SetPointOpacity(c, v))

SpecPoints == Init /\ [][NextPoints]_vars

\* the payloads of the mesh specification: MeshPayloads, and the mesh of one
\* triangle also with its vertices at the largest coordinate
MovingMeshPayloads ==
    Payloads(OneFrameMeshes \cup MultiFrameMeshes
             \cup {[nt |-> 1, pts |-> Flat(MaxChan, MaxCoord), tri |-> <<<<0, 1, 1>>>>]},
             MaxSub)

\* the mesh category alone, driven through update_mesh and the setters, any
\* number of calls
NextMesh ==
    \/ \E p \in MovingMeshPayloads : Free(UpdateMesh(p))
    \/ \E v \in FewColors : Free(SetMeshColor(v))
    \/ \E v \in FewOpacities : Free(SetMeshOpacity(v))

SpecMesh == Init /\ [][NextMesh]_vars

\* every public method of VtkModel, MaxCalls calls
Next ==
    \/ \E c \in PointCats, markers \in FewFrames : Counted(UpdatePoint(c, markers))
    \/ \E c \in PointCats, markers \in FewFrames : Counted(NewPointSet(c, markers))
    \/ \E c \in PointCats, v \in FewColors : Counted(SetPointColor(c, v))
    \/ \E c \in PointCats, v \in FewSizes : Counted(SetPointSize(c, v))
    \/ \E c \in PointCats, v \in FewOpacities : Counted(SetPointOpacity(c, v))
    \/ \E p \in FewMeshPayloads : Counted(UpdateMesh(p))
    \/ \E p \in FewMeshPayloads : Counted(NewMeshSet(p))
    \/ \E v \in FewColors : Counted(SetMeshColor(v))
    \/ \E v \in FewOpacities : Counted(SetMeshOpacity(v))
    \/ \E p \in FewMeshPayloads : Counted(UpdateMuscle(p))
    \/ \E p \in FewMeshPayloads : Counted(NewMuscleSet(p))
    \/ \E v \in FewColors : Counted(SetMuscleColor(v))
    \/ \E v \in FewOpacities : Counted(SetMuscleOpacity(v))
    \/ \E p \in FewWrappingPayloads : Counted(UpdateWrapping(p))
    \/ \E p \in FewSegments, seg \in 1..MaxSeg : Counted(NewWrappingSet(p, seg))
    \/ \E v \in FewColors : Counted(SetWrappingColor(v))
    \/ \E v \in FewOpacities : Counted(SetWrappingOpacity(v))
    \/ \E p \in FewRtPayloads : Counted(UpdateRt(p))
    \/ \E p \in FewRtPayloads : Counted(NewRtSet(p))
    \/ Counted(CreateGlobalRefFrame)

Spec == Init /\ [][Next]_vars

\* the per-segment lists pushed to update_wrapping when only pushes are
\* explored: no sub-entity or one, at any coordinate or spanning several
\* time samples, in a list; one single-frame sub-entity in a tuple
PushSegments ==
    {[kind |-> "list", items |-> l] :
        l \in SeqsUpTo({x \in OneFrameMeshes \cup MultiFrameMeshes : x.tri = <<>>}, 1)}
    \cup {[kind |-> "tuple", items |-> <<[nt |-> 1, pts |-> Flat(1, 0), tri |-> <<>>]>>]}

PushWrappingPayloads == SeqsUpTo(PushSegments, MaxSeg)

\* the update calls of every category, MaxCalls calls
NextPushes ==
    \/ \E c \in PointCats, markers \in Frames : Counted(UpdatePoint(c, markers))
    \/ \E p \in MeshPayloads : Counted(UpdateMesh(p))
    \/ \E p \in MeshPayloads : Counted(UpdateMuscle(p))
    \/ \E p \in PushWrappingPayloads : Counted(UpdateWrapping(p))
    \/ \E p \in RtPayloads : Counted(UpdateRt(p))

SpecPushes == Init /\ [][NextPushes]_vars

\* the per-segment lists of the wrapping specification: up to MaxSub
\* single-frame sub-entities of one or MaxChan points, one sub-entity
\* spanning several time samples, or a tuple of one sub-entity
WrappingSegments ==
    {[kind |-> "list", items |-> l] :
        l \in SeqsUpTo({[nt |-> 1, pts |-> Flat(n, 0), tri |-> <<>>] : n \in {1, MaxChan}},
                       MaxSub)}
    \cup {[kind |-> "list", items |-> <<x>>] : x \in MultiFrameMeshes}
    \cup {[kind |-> "tuple", items |-> <<[nt |-> 1, pts |-> Flat(1, 0), tri |-> <<>>]>>]}

\* the wrapping category alone, MaxCalls calls
NextWrapping ==
    \/ \E p \in SeqsUpTo(WrappingSegments, MaxSeg) : Counted(UpdateWrapping(p))
    \/ \E p \in WrappingSegments, seg \in 1..MaxSeg : Counted(NewWrappingSet(p, seg))
    \/ \E v \in FewColors : Counted(SetWrappingColor(v))
    \/ \E v \in FewOpacities : Counted(SetWrappingOpacity(v))

SpecWrapping == Init /\ [][NextWrapping]_vars

\* the rt collection alone, any number of calls
NextRt ==
    \/ \E p \in RtPayloads : Free(UpdateRt(p))
    \/ \E p \in RtPayloads : Free(NewRtSet(p))

SpecRt == Init /\ [][NextRt]_vars

\* the window: repaints, recording, construction of a model, the buttons of
\* the application, and MaxCalls marker pushes
NextWindow ==
    \/ Free(UpdateFrame)
    \/ \E finish \in BOOLEAN, button_to_block \in SeqsUpTo(1..MaxButtons, MaxButtons),
          file_name \in {NoFile, "out.ogv"} :
            Free(Record(finish, button_to_block, file_name))
    \/ Free(ConstructModel)
    \/ \E b \in 1..MaxButtons, v \in BOOLEAN : Free(SetEnabled(b, v))
    \/ \E markers \in FewFrames : Counted(UpdatePoint("markers", markers))

SpecWindow == Init /\ [][NextWindow]_vars

---------------------------------------------------------------------------
(* Claims *)

Actors(c) == c \o "_actors"

\* the step is a call of method op of category c
Called(op, c) == last'.op = op /\ last'.cat = c

\* C1: for markers, contacts and segments centre of mass, whenever a call has
\* returned normally the category's actor list is as long as the channel
\* count of its cached frame.
C1_ActorCountIsChannelCount ==
    last.exc = "none" =>
        \A c \in {"markers", "contacts", "segments_center_of_mass"} :
            Len(self[Actors(c)]) = Len(self[c].pts)

\* a setter returned normally on a contact set of MaxChan actors
C1_Witness ==
    /\ last.op = "set_size" /\ last.cat = "contacts" /\ last.exc = "none"
    /\ Len(self.contacts_actors) = MaxChan
    /\ Len(self.contacts.pts) = MaxChan

\* C2: update_markers with a single-frame frame of M channels on a cached
\* frame of N # M channels leaves exactly M actors, none of them one of the
\* N old actors, and no old actor is left in the scene.
C2_ArityChangeSwapsGeneration ==
    [][(/\ Called("update", "markers")
        /\ last'.arg.nt = 1
        /\ Len(last'.arg.pts) # Len(self.markers.pts))
       => /\ Len(self'.markers_actors) = Len(last'.arg.pts)
          /\ Range(self'.markers_actors) \cap Range(self.markers_actors) = {}
          /\ ren' \cap Range(self.markers_actors) = {}]_vars

\* a push of MaxChan channels has just replaced a generation of one actor
C2_Witness ==
    /\ last.op = "update" /\ last.cat = "markers" /\ last.exc = "none"
    /\ last.rebuilds = 1
    /\ Len(self.markers_actors) = MaxChan
    /\ 1 \notin Range(self.markers_actors)

\* the sphere actor i of category c shows after a pass over frame markers
Sphere(s, c, markers, i) ==
    [kind |-> "sphere", center |-> markers.pts[i], radius |-> s[c \o "_size"]]

\* C3: a single-frame update of a point category with the cached channel
\* count takes the fast path: same actor objects in the same order, scene
\* untouched, no camera reset; only geometry, color and opacity of the
\* category's actors are rewritten.
C3_SameArityFastPath ==
    [][\A c \in PointCats :
        (/\ Called("update", c)
         /\ last'.arg.nt = 1
         /\ Len(last'.arg.pts) = Len(self[c].pts))
        => /\ last'.exc = "none" /\ last'.rebuilds = 0 /\ last'.resets = 0
           /\ self' = [self EXCEPT ![c] = last'.arg]
           /\ ren' = ren
           /\ DOMAIN vtk' = DOMAIN vtk
           /\ \A a \in DOMAIN vtk :
                IF a \in Range(self[Actors(c)])
                THEN vtk'[a].width = vtk[a].width
                ELSE vtk'[a] = vtk[a]
           /\ \A i \in 1..Len(self[Actors(c)]) :
                LET a == self[Actors(c)][i]
                IN  /\ vtk'[a].input = Sphere(self, c, last'.arg, i)
                    /\ vtk'[a].color = self[c \o "_color"]
                    /\ vtk'[a].opacity = self[c \o "_opacity"]]_vars

\* a fast-path update has moved the MaxChan actors of the segments centre of mass
C3_Witness ==
    /\ last.op = "update" /\ last.cat = "segments_center_of_mass"
    /\ last.exc = "none" /\ last.rebuilds = 0 /\ last.passes = 1
    /\ Len(self.segments_center_of_mass_actors) = MaxChan
    /\ \A i \in 1..MaxChan :
         vtk[self.segments_center_of_mass_actors[i]].input.center = MaxCoord

\* C4: in each point category, update and rebuild calls whose payload does not
\* carry exactly one time sample raise the invalid-frame error before any
\* mutation.
C4_InvalidFrameRejectedFirst ==
    [][\A c \in PointCats :
        (/\ (Called("update", c) \/ Called("new_set", c))
         /\ last'.arg.nt # 1)
        => /\ last'.exc = "IndexError"
           /\ self'[c] = self[c]
           /\ self'[Actors(c)] = self[Actors(c)]
           /\ ren' = ren]_vars

\* C5: a single-frame push whose channel count differs from the cached one
\* never raises: it rebuilds and returns with one actor per channel, in the
\* global centre of mass as in the other point categories; likewise a list
\* of single-frame sub-entities pushed to the mesh, muscle or rt collection
\* with another length than the cached one.
C5_ArityMismatchIsNoError ==
    [][/\ \A c \in PointCats :
           (/\ Called("update", c)
            /\ last'.arg.nt = 1
            /\ Len(last'.arg.pts) # Len(self[c].pts))
           => /\ last'.exc = "none"
              /\ last'.rebuilds = 1
              /\ Len(self'[Actors(c)]) = Len(last'.arg.pts)
       /\ \A c \in {"mesh", "muscle", "rt"} :
           (/\ Called("update", c)
            /\ last'.arg.kind = "list"
            /\ \A i \in 1..Len(last'.arg.items) : last'.arg.items[i].nt = 1
            /\ Len(last'.arg.items) # (IF c = "rt" THEN self.n_rt
                                       ELSE Len(self[AllField(c)])))
           => /\ last'.exc = "none"
              /\ Len(self'[Actors(c)]) = Len(last'.arg.items)]_vars

ListCats == {"mesh", "muscle", "rt"}

StyledCats == PointCats \cup {"mesh", "muscle", "wrapping"}

Setters == {"set_size", "set_color", "set_opacity"}

\* the style field a setter stores into
StyleField(op, c) ==
    c \o (IF op = "set_size" THEN "_size" ELSE IF op = "set_color" THEN "_color" ELSE "_opacity")

\* every sub-entity of the payload carries exactly one frame
OneFrameEach(c, arg) ==
    IF c \in PointCats THEN arg.nt = 1
    ELSE IF c \in ListCats THEN \A i \in 1..Len(arg.items) : arg.items[i].nt = 1
    ELSE \A seg \in 1..Len(arg) : \A i \in 1..Len(arg[seg].items) : arg[seg].items[i].nt = 1

SameItemShapes(p, q) ==
    /\ p.kind = q.kind
    /\ Len(p.items) = Len(q.items)
    /\ \A i \in 1..Len(p.items) :
         "pts" \in DOMAIN p.items[i] => Len(p.items[i].pts) = Len(q.items[i].pts)

\* two payloads of category c with the same sub-entities and channel counts
SameShape(c, a, b) ==
    IF c \in PointCats THEN Len(a.pts) = Len(b.pts)
    ELSE IF c \in ListCats THEN SameItemShapes(a, b)
    ELSE Len(a) = Len(b) /\ \A seg \in 1..Len(a) : SameItemShapes(a[seg], b[seg])

\* category c has one actor per sub-entity (per channel) of the payload
OneActorEach(s, c, arg) ==
    IF c \in PointCats THEN Len(s[Actors(c)]) = Len(arg.pts)
    ELSE IF c \in ListCats THEN Len(s[Actors(c)]) = Len(arg.items)
    ELSE /\ Len(s.wrapping_actors) >= Len(arg)
         /\ \A seg \in 1..Len(arg) : Len(s.wrapping_actors[seg]) = Len(arg[seg].items)

\* C6: after an update of a category has raised the invalid-frame error, an
\* update of the same category with a payload of the same shape in which
\* every sub-entity carries one frame returns normally, with one actor per
\* sub-entity.  Stated for the collections, whose single-frame test runs per
\* sub-entity inside the rebuild loop.
C6_ResubmissionSucceeds ==
    [][\A c \in ListCats \cup {"wrapping"} :
        (/\ last.op = "update" /\ last.cat = c /\ last.exc = "IndexError"
         /\ ~OneFrameEach(c, last.arg)
         /\ Called("update", c)
         /\ SameShape(c, last.arg, last'.arg)
         /\ OneFrameEach(c, last'.arg))
        => /\ last'.exc = "none"
           /\ OneActorEach(self', c, last'.arg)]_vars

\* C7: a collection-style update that receives neither a single sub-entity
\* nor a list of sub-entities raises the type error and leaves the cached
\* sub-entities, the actor lists and the scene of the category as they were.
C7_TypeErrorAppliesNothing ==
    [][/\ \A c \in ListCats :
           (Called("update", c) /\ last'.arg.kind = "tuple")
           => /\ last'.exc = "TypeError"
              /\ self' = self /\ ren' = ren /\ vtk' = vtk
       /\ (/\ Called("update", "wrapping")
           /\ \E seg \in 1..Len(last'.arg) : last'.arg[seg].kind = "tuple")
          => /\ last'.exc = "TypeError"
             /\ self' = self /\ ren' = ren /\ vtk' = vtk]_vars

\* the actors of the scene that no category lists: the global reference frame
GlobalRefFrameActors(s, r) == r \ Listed(s)

\* C8: the first create_global_ref_frame adds exactly one frame actor to the
\* scene; every later one raises the duplicate-init error and changes
\* nothing; no other call removes or modifies that actor; the scene never
\* holds more than one.
C8_GlobalRefFrameOnce ==
    [][/\ (Called("create", "global_ref_frame") /\ ~self.has_global_ref_frame)
          => /\ last'.exc = "none"
             /\ self' = [self EXCEPT !.has_global_ref_frame = TRUE]
             /\ \E a \in ren' \ ren :
                  /\ ren' = ren \cup {a}
                  /\ vtk' = a :> [BlankActor EXCEPT
                                    !.input = AxesInput(0, self.global_ref_frame_length),
                                    !.width = self.global_ref_frame_width] @@ vtk
       /\ (Called("create", "global_ref_frame") /\ self.has_global_ref_frame)
          => /\ last'.exc = "RuntimeError"
             /\ self' = self /\ ren' = ren /\ vtk' = vtk
       /\ \A a \in GlobalRefFrameActors(self, ren) :
            /\ a \in GlobalRefFrameActors(self', ren')
            /\ vtk'[a] = vtk[a]
       /\ Cardinality(GlobalRefFrameActors(self', ren')) =
            (IF self'.has_global_ref_frame THEN 1 ELSE 0)]_vars

\* a second creation has been refused after a rebuild of the rt collection,
\* and the frame actor is still in the scene
C8_Witness ==
    /\ last.op = "create" /\ last.exc = "RuntimeError"
    /\ Len(self.rt_actors) > 0
    /\ Cardinality(GlobalRefFrameActors(self, ren)) = 1

\* no frame has been pushed to category c: its cache is as __init__ left it
NoFrameYet(s, c) ==
    IF c \in PointCats THEN s[c] = EmptyMarkers
    ELSE IF c = "wrapping" THEN s.all_wrappings = <<>>
    ELSE s[AllField(c)] = <<>>

\* C9: a style setter called before any frame has been pushed to its
\* category stores the value, returns without raising, creates no actor and
\* does not touch the scene.
C9_SetterBeforeFrameIsNoOp ==
    [][\A c \in StyledCats : \A op \in Setters :
        (Called(op, c) /\ NoFrameYet(self, c))
        => /\ last'.exc = "none"
           /\ self' = [self EXCEPT ![StyleField(op, c)] = last'.arg]
           /\ ren' = ren /\ vtk' = vtk]_vars

\* C10: once a frame has been pushed to a category, a style setter of that
\* category never rebuilds: it takes the fast path, and the cached frame,
\* the sub-entity count, the actors and the scene are as before.
C10_SetterTakesFastPath ==
    [][\A c \in StyledCats : \A op \in Setters :
        (Called(op, c) /\ ~NoFrameYet(self, c))
        => /\ last'.exc = "none"
           /\ last'.rebuilds = 0 /\ last'.passes >= 1
           /\ self' = [self EXCEPT ![StyleField(op, c)] = last'.arg]
           /\ ren' = ren
           /\ DOMAIN vtk' = DOMAIN vtk]_vars

\* the actors category c lists
LiveActors(s, c) ==
    IF c = "wrapping"
    THEN UNION {Range(s.wrapping_actors[seg]) : seg \in 1..Len(s.wrapping_actors)}
    ELSE Range(s[Actors(c)])

\* what an actor's input is made of besides point coordinates
Topology(actor) ==
    IF "cells" \in DOMAIN actor.input
    THEN [kind |-> actor.input.kind, cells |-> actor.input.cells]
    ELSE [kind |-> actor.input.kind]

\* C11: when set_color or set_opacity returns on a category that has live
\* actors (point categories, mesh, muscle, wrapping), every live actor of the
\* category carries the value just stored, and every actor is the one it was,
\* with the topology it had.
C11_SetterRestylesLiveActors ==
    [][\A c \in StyledCats : \A op \in {"set_color", "set_opacity"} :
        (/\ Called(op, c) /\ last'.exc = "none"
         /\ LiveActors(self, c) # {})
        => /\ LiveActors(self', c) = LiveActors(self, c)
           /\ \A a \in LiveActors(self', c) :
                /\ a \in DOMAIN vtk
                /\ Topology(vtk'[a]) = Topology(vtk[a])
                /\ IF op = "set_color" THEN vtk'[a].color = last'.arg
                   ELSE vtk'[a].opacity = last'.arg]_vars

\* C12: set_muscle_color stores the color and then runs the muscle update on
\* the cached muscle list, as set_muscle_opacity does: the call ends as that
\* update ends (normally when the update does), having made one update pass.
C12_MuscleColorSetterUpdates ==
    [][Called("set_color", "muscle") =>
        LET stored == [Enter EXCEPT !.self.muscle_color = last'.arg]
            m == update_meshes(stored, "muscle",
                               [kind |-> "list", items |-> self.all_muscles])
        IN  /\ self' = m.self
            /\ ren' = m.ren
            /\ last'.exc = m.exc
            /\ last'.passes = m.passes]_vars

\* the actors of category c are spheres centred on the points of frame markers
CentredOn(s, v, c, markers) ==
    /\ Len(s[Actors(c)]) = Len(markers.pts)
    /\ \A i \in 1..Len(markers.pts) :
         /\ v[s[Actors(c)][i]].input.kind = "sphere"
         /\ v[s[Actors(c)][i]].input.center = markers.pts[i]

\* C13: in a point category, set_color right after a successful push, and
\* set_size right after that set_color, return normally and leave the cached
\* frame, the actor identities and every sphere centre as the push left them;
\* set_color changes only the stored color and the actors' color, set_size
\* only the stored size and the actors' radius.
C13_ColorThenSizeKeepsGeometry ==
    [][\A c \in PointCats :
        /\ (/\ last.op = "update" /\ last.cat = c /\ last.exc = "none"
            /\ Called("set_color", c))
           => /\ last'.exc = "none"
              /\ self' = [self EXCEPT ![c \o "_color"] = last'.arg]
              /\ self'[c] = last.arg
              /\ CentredOn(self', vtk', c, last.arg)
              /\ ren' = ren /\ DOMAIN vtk' = DOMAIN vtk
              /\ \A a \in DOMAIN vtk :
                   vtk'[a] = IF a \in LiveActors(self, c)
                             THEN [vtk[a] EXCEPT !.color = last'.arg]
                             ELSE vtk[a]
        /\ (/\ last.op = "set_color" /\ last.cat = c /\ last.exc = "none"
            /\ Called("set_size", c))
           => /\ last'.exc = "none"
              /\ self' = [self EXCEPT ![c \o "_size"] = last'.arg]
              /\ CentredOn(self', vtk', c, self[c])
              /\ ren' = ren /\ DOMAIN vtk' = DOMAIN vtk
              /\ \A a \in DOMAIN vtk :
                   vtk'[a] = IF a \in LiveActors(self, c)
                             THEN [vtk[a] EXCEPT !.input.radius = last'.arg]
                             ELSE vtk[a]]_vars

\* set_size has just returned on MaxChan contact actors that carry a color
\* only set_contacts_color can have given them, still centred on the pushed frame
C13_Witness ==
    /\ last.op = "set_size" /\ last.cat = "contacts" /\ last.exc = "none"
    /\ calls = MaxCalls
    /\ Len(self.contacts_actors) = MaxChan
    /\ CentredOn(self, vtk, "contacts", [pts |-> Flat(MaxChan, MaxCoord)])
    /\ \A i \in 1..MaxChan :
         /\ vtk[self.contacts_actors[i]].color = <<1000, 0, 0>>
         /\ vtk[self.contacts_actors[i]].input.radius = 200

\* the update method of category c run on machine m with payload arg
UpdateOf(m, c, arg) ==
    IF c \in PointCats THEN update_point(m, c, arg)
    ELSE IF c = "wrapping" THEN update_wrapping(m, arg)
    ELSE IF c = "rt" THEN update_rt(m, arg)
    ELSE update_meshes(m, c, arg)

\* the machine at the entry of a call made in the state this step leads to
EnterNext ==
    [self |-> self', ren |-> ren', vtk |-> vtk', entry |-> DOMAIN vtk', exc |-> "none",
     resets |-> 0, rebuilds |-> 0, passes |-> 0]

\* the vtk objects the model or the scene still refers to
Alive(m) == [a \in (m.ren \cup Listed(m.self)) |-> m.vtk[a]]

\* C14: pushing a single-frame payload F a second time changes nothing: the
\* model, the scene and every actor's geometry and style after update(F);
\* update(F) are those after the first update(F), in every category and in
\* every state, also when the first push is the one that rebuilds.
C14_UpdateIsIdempotent ==
    [][\A c \in PointCats \cup ListCats \cup {"wrapping"} :
        (Called("update", c) /\ OneFrameEach(c, last'.arg))
        => LET again == UpdateOf(EnterNext, c, last'.arg)
           IN  /\ again.self = self'
               /\ again.ren = ren'
               /\ Alive(again) = vtk'
               /\ again.rebuilds = 0
               /\ again.exc = last'.exc]_vars

\* a push has rebuilt the mesh collection for two sub-entities and placed
\* the vertex of the first at the largest coordinate
C14_Witness ==
    /\ last.op = "update" /\ last.cat = "mesh" /\ last.exc = "none"
    /\ last.rebuilds = 1
    /\ Len(self.mesh_actors) = MaxSub
    /\ vtk[self.mesh_actors[1]].input.pts = Flat(1, MaxCoord)

\* C15: a call that rebuilds one category once and creates k >= 1 actors
\* requests the camera reset exactly once, whatever k.
C15_OneCameraResetPerRebuild ==
    [][\A c \in PointCats \cup ListCats \cup {"wrapping"} :
        (/\ (Called("update", c) \/ Called("new_set", c))
         /\ last'.exc = "none"
         /\ last'.rebuilds = 1
         /\ Cardinality(LiveActors(self', c) \ DOMAIN vtk) >= 1)
        => last'.resets = 1]_vars

\* the first row of a triangle table: the first point id of every column
FirstRow(tri) == {tri[j][1] : j \in 1..Len(tri)}

\* C16: a mesh rebuild gives sub-entity i the outline topology (one closed
\* polyline per triangle column) when it has no triangle or the first row of
\* its triangle table is constant, and otherwise the surface topology: one
\* polygon of 3 point ids per triangle column.
C16_TopologyClassOnRebuild ==
    [][(/\ Called("update", "mesh") /\ last'.exc = "none" /\ last'.rebuilds = 1)
        => \A i \in 1..Len(self'.all_meshes) :
             LET mesh == self'.all_meshes[i]
                 input == vtk'[self'.mesh_actors[i]].input
             IN  IF Len(mesh.tri) = 0 \/ Cardinality(FirstRow(mesh.tri)) = 1
                 THEN /\ input.kind = "lines"
                      /\ input.cells = [j \in 1..Len(mesh.tri) |-> ClosedLine(mesh.tri[j])]
                 ELSE /\ input.kind = "polys"
                      /\ input.cells = mesh.tri]_vars

\* the payload carries, sub-entity by sub-entity, the cached triangle tables
SameTriangles(arg, cached) ==
    /\ Len(arg.items) = Len(cached)
    /\ \A i \in 1..Len(cached) : arg.items[i].tri = cached[i].tri

\* C17: an update_mesh call that takes the fast path with the triangle
\* tables of the cached meshes keeps the actor list and, for every mesh
\* actor, the topology (class, cell list, cell count) and the style the last
\* rebuild gave it; it writes only the pushed point coordinates.
C17_FastPathKeepsTopology ==
    [][(/\ Called("update", "mesh") /\ last'.exc = "none" /\ last'.rebuilds = 0
        /\ SameTriangles(Wrap(last'.arg), self.all_meshes))
        => /\ self'.mesh_actors = self.mesh_actors
           /\ ren' = ren
           /\ \A i \in 1..Len(self.mesh_actors) :
                LET a == self.mesh_actors[i]
                IN  /\ Topology(vtk'[a]) = Topology(vtk[a])
                    /\ Len(vtk'[a].input.cells) = Len(vtk[a].input.cells)
                    /\ vtk'[a] = IF i <= Len(self'.all_meshes)
                                 THEN [vtk[a] EXCEPT !.input.pts = self'.all_meshes[i].pts]
                                 ELSE vtk[a]]_vars

\* a fast-path push has moved the vertices of a mesh of one triangle
C17_Witness ==
    /\ last.op = "update" /\ last.cat = "mesh" /\ last.exc = "none"
    /\ last.rebuilds = 0 /\ last.passes = 1
    /\ Len(self.mesh_actors) >= 1
    /\ vtk[self.mesh_actors[1]].input.cells = <<ClosedLine(<<0, 1, 1>>)>>
    /\ vtk[self.mesh_actors[1]].input.pts = Flat(MaxChan, MaxCoord)

\* the cached frame, the style fields and the actor list of category c
Fields(c) ==
    IF c \in PointCats
    THEN {c, c \o "_size", c \o "_color", c \o "_opacity", c \o "_actors"}
    ELSE IF c = "rt" THEN {"all_rt", "n_rt", "rt_length", "rt_width", "rt_actors"}
    ELSE IF c = "wrapping"
    THEN {"all_wrappings", "wrapping_color", "wrapping_opacity", "wrapping_actors",
          "wrapping_actors_ref"}
    ELSE {AllField(c), c \o "_color", c \o "_opacity", c \o "_actors"}

\* C18: an update, rebuild or style-setter call on category c, returning or
\* raising, leaves every field of every other category, the scene membership
\* of every actor that is not one of c's, and those actors themselves, as
\* they were.
C18_OtherCategoriesUntouched ==
    [][\A c \in PointCats \cup ListCats \cup {"wrapping"} :
        last'.cat = c
        => /\ \A f \in (DOMAIN self) \ Fields(c) : self'[f] = self[f]
           /\ ren' \ LiveActors(self', c) = ren \ LiveActors(self, c)
           /\ \A a \in (DOMAIN vtk) \ LiveActors(self, c) :
                a \in DOMAIN vtk' /\ vtk'[a] = vtk[a]]_vars

\* an update of the mesh collection has raised while the marker set and the
\* rt collection have actors in the scene
C18_Witness ==
    /\ last.op = "update" /\ last.cat = "mesh" /\ last.exc = "IndexError"
    /\ Len(self.markers_actors) = MaxChan
    /\ Range(self.markers_actors) \subseteq ren
    /\ Len(self.rt_actors) >= 1
    /\ Range(self.rt_actors) \subseteq ren

\* C19: whenever update_mesh or update_muscle returns normally, the category
\* has as many actors as the pushed list has sub-entities, also when the list
\* is shorter than the cached one and its sub-entities keep their channel counts.
C19_ActorCountIsSubEntityCount ==
    [][\A c \in {"mesh", "muscle"} :
        (Called("update", c) /\ last'.exc = "none")
        => Len(self'[Actors(c)]) = Len(Wrap(last'.arg).items)]_vars

\* C20: update_wrapping called with per-segment lists of single-frame
\* sub-entities returns normally in every state, with as many actors in
\* every pushed segment as the segment has sub-entities.
C20_WrappingUpdateCoversSegments ==
    [][(/\ Called("update", "wrapping")
        /\ \A seg \in 1..Len(last'.arg) : IsList(last'.arg[seg])
        /\ OneFrameEach("wrapping", last'.arg))
        => /\ last'.exc = "none"
           /\ OneActorEach(self', "wrapping", last'.arg)]_vars

\* segment t of the wrapping category is as it was: cached sub-entities,
\* actor list, the actors and their scene membership
SegmentKept(t) ==
    /\ self'.all_wrappings[t] = self.all_wrappings[t]
    /\ self'.wrapping_actors[t] = self.wrapping_actors[t]
    /\ Range(self.wrapping_actors[t]) \cap ren' = Range(self.wrapping_actors[t]) \cap ren
    /\ \A a \in Range(self.wrapping_actors[t]) : vtk'[a] = vtk[a]

\* the arity test of update_wrapping is true for some sub-entity of segment t
SegmentArityDiffers(s, arg, t) ==
    \E i \in 1..Len(arg[t].items) :
        \/ Len(s.all_wrappings[t]) < i
        \/ Len(arg[t].items[i].pts) # Len(s.all_wrappings[t][i].pts)

\* C21: a rebuild of wrapping segment seg replaces the cached sub-entities
\* and the actor list of that segment only: new_wrapping_set(., seg) keeps
\* every other segment, and an update_wrapping call keeps the actor list and
\* the scene actors of every segment it does not rebuild and the whole of
\* every segment it is not given.
C21_SegmentsAreIndependent ==
    [][/\ Called("new_set", "wrapping")
          => /\ Len(self'.wrapping_actors) = Len(self.wrapping_actors)
             /\ \A t \in 1..Len(self.wrapping_actors) :
                  t # last'.arg.seg => SegmentKept(t)
       /\ Called("update", "wrapping")
          => \A t \in 1..Len(self.wrapping_actors) :
               /\ t > Len(last'.arg) => SegmentKept(t)
               /\ (t <= Len(last'.arg) /\ ~SegmentArityDiffers(self, last'.arg, t))
                  => /\ self'.wrapping_actors[t] = self.wrapping_actors[t]
                     /\ Range(self.wrapping_actors[t]) \cap ren'
                          = Range(self.wrapping_actors[t]) \cap ren]_vars

\* new_wrapping_set has rebuilt the second segment while the first keeps the
\* actor it got from the first push
C21_Witness ==
    /\ last.op = "new_set" /\ last.cat = "wrapping" /\ last.exc = "none"
    /\ last.arg.seg = 2
    /\ Len(self.wrapping_actors) = 2
    /\ self.wrapping_actors[1] = <<1>> /\ 1 \in ren
    /\ Len(self.wrapping_actors[2]) = 1 /\ self.wrapping_actors[2] # <<2>>

\* C22: update_rt, given one transform or a list, rebuilds exactly when the
\* pushed list has another length than n_rt, and whenever it returns
\* normally the rt collection has as many actors as n_rt says, which is the
\* number of transforms just pushed.
C22_RtArityIsTransformCount ==
    [][Called("update", "rt")
        => /\ IsList(Wrap(last'.arg))
              => ((last'.rebuilds >= 1) <=> (Len(last'.arg.items) # self.n_rt))
           /\ last'.exc = "none"
              => /\ self'.n_rt = Len(last'.arg.items)
                 /\ Len(self'.rt_actors) = self'.n_rt]_vars

\* C23: a single-frame push to a point category whose channel count differs
\* from the cached one runs the rebuild once and the geometry pass once: the
\* update at the end of the rebuild takes the fast path, and the outer
\* update returns without a second pass.
C23_OneRebuildOnePass ==
    [][\A c \in PointCats :
        (/\ Called("update", c)
         /\ last'.arg.nt = 1
         /\ Len(last'.arg.pts) # Len(self[c].pts))
        => /\ last'.exc = "none"
           /\ last'.rebuilds = 1
           /\ last'.passes = 1]_vars

\* C24: every update call of the mesh, muscle and rt categories ends, after
\* at most one rebuild and one geometry pass: the update a rebuild ends with
\* finds the cached arity equal to the payload's and takes the fast path, so
\* the calls nest no deeper than update, rebuild, update.
C24_UpdateNestsAtMostOnce ==
    [][\A c \in ListCats :
        Called("update", c)
        => /\ last'.exc \in {"none", "IndexError", "TypeError", OutOfRange}
           /\ last'.rebuilds <= 1
           /\ last'.passes <= 1
           /\ (last'.rebuilds = 1 /\ last'.exc = "none") => last'.passes = 1
           /\ last'.passes = 1 => UpdateOf(EnterNext, c, last'.arg).rebuilds = 0]_vars

\* an update has rebuilt the muscle collection for MaxSub muscles of MaxChan
\* points and applied their geometry in its one pass
C24_Witness ==
    /\ last.op = "update" /\ last.cat = "muscle" /\ last.exc = "none"
    /\ last.rebuilds = 1 /\ last.passes = 1
    /\ Len(self.muscle_actors) = MaxSub
    /\ \A i \in 1..MaxSub : Len(vtk[self.muscle_actors[i]].input.pts) = MaxChan

\* C25: in every reachable state, also after a call that raised part-way
\* through a rebuild, the actors in the scene are exactly the actors the
\* categories list (each in one list only), besides the global reference
\* frame once it is created: no listed actor is missing from the scene and
\* no actor dropped from a list is left in it.
C25_SceneIsTheActorLists ==
    /\ \A c \in PointCats \cup ListCats \cup {"wrapping"} : LiveActors(self, c) \subseteq ren
    /\ \A c, d \in PointCats \cup ListCats \cup {"wrapping"} :
         c # d => LiveActors(self, c) \cap LiveActors(self, d) = {}
    /\ Cardinality(ren \ Listed(self)) = (IF self.has_global_ref_frame THEN 1 ELSE 0)
    /\ DOMAIN vtk = ren

\* a mesh rebuild has raised on its second sub-entity after it had replaced
\* an earlier generation of actors by the actor of the first
C25_Witness ==
    /\ last.op = "update" /\ last.cat = "mesh" /\ last.exc = "IndexError"
    /\ last.rebuilds = 1
    /\ Len(self.all_meshes) = 2 /\ Len(self.mesh_actors) = 1
    /\ 1 \notin Range(self.mesh_actors)
    /\ Range(self.mesh_actors) \subseteq ren

\* the pushed segments of payload arg for which the arity test of
\* update_wrapping is true for some sub-entity, a segment without cache
\* counting as empty
SegmentsToRebuild(s, arg) ==
    {t \in 1..Len(arg) :
        LET cached == IF t <= Len(s.all_wrappings) THEN s.all_wrappings[t] ELSE <<>>
        IN  \E i \in 1..Len(arg[t].items) :
                \/ Len(cached) < i
                \/ Len(arg[t].items[i].pts) # Len(cached[i].pts)}

\* C26: one update_wrapping call rebuilds each segment at most once, however
\* many sub-entities the segment has: it makes no more rebuilds than it is
\* given segments whose arity differs, and exactly that many when it returns
\* normally.
C26_SegmentRebuiltAtMostOnce ==
    [][Called("update", "wrapping")
        => /\ last'.rebuilds <= Cardinality(SegmentsToRebuild(self, last'.arg))
           /\ last'.exc = "none"
              => last'.rebuilds = Cardinality(SegmentsToRebuild(self, last'.arg))]_vars

\* one call has rebuilt MaxSeg segments of MaxSub sub-entities each, once each
C26_Witness ==
    /\ last.op = "update" /\ last.cat = "wrapping" /\ last.exc = "none"
    /\ last.rebuilds = MaxSeg
    /\ Len(self.wrapping_actors) = MaxSeg
    /\ \A t \in 1..MaxSeg : Len(self.wrapping_actors[t]) = MaxSub

\* some mesh actor built by this step at a position up to i has the outline topology
OutlineBuiltUpTo(i) ==
    \E j \in 1..i : vtk'[self'.mesh_actors[j]].input.kind = "lines"

\* C27: when a mesh rebuild builds a sub-entity with the outline topology
\* the stored mesh color becomes (0, 0, 0), whatever set_mesh_color stored
\* before, and that actor and every actor built after it get (0, 0, 0);
\* the stored color changes at no other moment than a rebuild and
\* set_mesh_color, so later rebuilds keep building black actors until
\* set_mesh_color is called again.
C27_OutlineForcesBlack ==
    [][/\ (last'.cat = "mesh" /\ last'.op \in {"update", "new_set"} /\ last'.rebuilds = 1)
          => /\ self'.mesh_color = IF OutlineBuiltUpTo(Len(self'.mesh_actors))
                                   THEN <<0, 0, 0>> ELSE self.mesh_color
             /\ \A i \in 1..Len(self'.mesh_actors) :
                  vtk'[self'.mesh_actors[i]].color =
                      IF OutlineBuiltUpTo(i) THEN <<0, 0, 0>> ELSE self.mesh_color
       /\ self'.mesh_color # self.mesh_color
          => \/ Called("set_color", "mesh") /\ self'.mesh_color = last'.arg
             \/ last'.cat = "mesh" /\ last'.rebuilds = 1 /\ self'.mesh_color = <<0, 0, 0>>]_vars

\* a rebuild has replaced an earlier generation by MaxSub black outline
\* actors and left the stored color black
C27_Witness ==
    /\ last.op = "update" /\ last.cat = "mesh" /\ last.exc = "none"
    /\ last.rebuilds = 1
    /\ self.mesh_color = <<0, 0, 0>>
    /\ Len(self.mesh_actors) = MaxSub
    /\ 1 \notin Range(self.mesh_actors)
    /\ \A i \in 1..MaxSub :
         /\ vtk[self.mesh_actors[i]].input.kind = "lines"
         /\ vtk[self.mesh_actors[i]].color = <<0, 0, 0>>

\* C28: an update_rt call with as many transforms as n_rt changes nothing
\* but the point positions (origin and axis tips) of the rt actors: every
\* actor keeps its identity, its three line cells from the origin to X, Y
\* and Z, its cell colors red, green and blue and its line width, and the
\* scene is not touched.
C28_RtFastPathMovesPointsOnly ==
    [][(/\ Called("update", "rt")
        /\ IsList(Wrap(last'.arg))
        /\ Len(last'.arg.items) = self.n_rt)
        => /\ last'.rebuilds = 0
           /\ self'.rt_actors = self.rt_actors
           /\ self'.n_rt = self.n_rt
           /\ ren' = ren
           /\ DOMAIN vtk' = DOMAIN vtk
           /\ \A a \in DOMAIN vtk :
                /\ vtk'[a] = [vtk[a] EXCEPT !.input = vtk'[a].input]
                /\ vtk'[a].input = IF a \in Range(self.rt_actors)
                                   THEN [vtk[a].input EXCEPT !.origin = vtk'[a].input.origin,
                                                             !.length = vtk'[a].input.length]
                                   ELSE vtk[a].input
                /\ a \in Range(self.rt_actors)
                   => /\ vtk'[a].input.cells = AxesCells
                      /\ vtk'[a].input.colors = AxesColors]_vars

\* a same-count update has moved the MaxSub frames of the rt collection to
\* the largest coordinate
C28_Witness ==
    /\ last.op = "update" /\ last.cat = "rt" /\ last.exc = "none"
    /\ last.rebuilds = 0 /\ last.passes = 1
    /\ Len(self.rt_actors) = MaxSub /\ self.n_rt = MaxSub
    /\ \A i \in 1..MaxSub :
         /\ vtk[self.rt_actors[i]].input.origin = MaxCoord
         /\ vtk[self.rt_actors[i]].input.length = self.rt_length


\* C29: the pending camera reset of the window is consumed by exactly one
\* repaint: update_frame resets the camera exactly when should_reset_camera
\* is set on entry and leaves the flag cleared, and the flag is set again by
\* nothing but the construction of a model (a push that rebuilds actors
\* leaves it alone).
C29_ResetConsumedByOneRepaint ==
    [][/\ last'.op = "update_frame" =>
            /\ last'.resets = (IF window.should_reset_camera THEN 1 ELSE 0)
            /\ ~window'.should_reset_camera
       /\ (window'.should_reset_camera /\ ~window.should_reset_camera) =>
            last'.op = "__init__"
       /\ last'.op = "__init__" => window'.should_reset_camera]_vars

\* a repaint that found the flag already consumed and did not reset the camera
C29_Witness ==
    /\ last.op = "update_frame"
    /\ last.resets = 0
    /\ ~window.should_reset_camera

\* C30: record leaves the enabled state of every button as it was before the
\* call: every button of button_to_block is disabled while the frame is
\* written (the others keep their state), and afterwards every button is
\* enabled exactly when it was on entry.
C30_RecordRestoresButtons ==
    [][last'.op = "record" =>
          LET button_to_block == last'.arg.button_to_block
              blocked == {button_to_block[i] : i \in 1..Len(button_to_block)}
          IN  /\ \A b \in blocked : ~last'.during[b]
              /\ \A b \in (1..MaxButtons) \ blocked : last'.during[b] = buttons[b]
              /\ buttons' = buttons]_vars

\* a frame was written with an enabled and a disabled button both blocked
C30_Witness ==
    /\ last.op = "record"
    /\ last.arg.button_to_block = <<1, 2>>
    /\ buttons[1]
    /\ ~buttons[2]
    /\ ~last.during[1]

=============================================================================
